---- MODULE Spec2Model ----
(***************************************************************************)
(* Model of record_2_wuwaUID: the batch driver (main.py), the workbook     *)
(* converter (src/wuwatool_excel_converter.py) and the tracker JSON        *)
(* converter (src/wuwatracker_json_converter.py).                          *)
(*                                                                         *)
(* Strings are sequences of pieces (characters, or longer pieces where no  *)
(* operation of the program looks inside them); two strings are equal iff  *)
(* their piece sequences are equal.  Python values are records             *)
(* [t, i, s]: t the type, i the integer value, s the string value.         *)
(***************************************************************************)
EXTENDS Integers, Sequences, FiniteSets, TLC

VARIABLES
    pc,           \* position of batch_process / of the pure-function harness
    dataDirExists,\* os.path.exists(data_dir) when batch_process starts
    disk,         \* the data directory: os.listdir order, with each file's content
    net,          \* what the two remote endpoints answer
    fidx,         \* index in the listing of the file the loop is at
    pidx,         \* index of the pull the loop of _process_json_data is at
    conv,         \* the converter instance of the current iteration
    exportDir,    \* the export directory: file name -> what was written
    dispatched,   \* indices of the files handed to a converter, in order
    results,      \* what process() returned, per file handed to a converter
    escaped,      \* exception that left a public operation ("none" if none)
    tin,          \* argument of the function applied on its own
    tout          \* its result

vars == <<pc, dataDirExists, disk, net, fidx, pidx, conv, exportDir,
          dispatched, results, escaped, tin, tout>>

-----------------------------------------------------------------------------
(* Bounds *)

MaxTimeLen == 4      \* pieces in a timestamp string
MaxSheets  == 2      \* sheets in a workbook
MaxRows    == 2      \* data rows in a workbook, all sheets together
MaxPulls   == 2      \* entries of a "pulls" list
MaxFiles   == 2      \* files in the data directory
MaxCode    == 25     \* largest pool-type code

-----------------------------------------------------------------------------
(* Python values *)

V(t, i, s) == [t |-> t, i |-> i, s |-> s]
Absent  == V("absent", 0, <<>>)      \* key not present in a dict
None    == V("null", 0, <<>>)        \* None / JSON null
NaN     == V("nan", 0, <<>>)         \* float('nan'), an empty spreadsheet cell
AList   == V("list", 0, <<>>)        \* a non-empty list: truthy, unhashable
IntV(n)  == V("int", n, <<>>)
StrV(s)  == V("str", 0, s)

\* a dict as a function from keys to values
EmptyMap == [k \in {} |-> None]
MapGet(m, k) == IF k \in DOMAIN m THEN m[k] ELSE None
MapSet(m, k, v) == [x \in (DOMAIN m) \cup {k} |-> IF x = k THEN v ELSE m[x]]

\* bool(v)
Truthy(v) ==
    CASE v.t = "int"  -> v.i # 0
      [] v.t = "str"  -> v.s # <<>>
      [] v.t = "list" -> TRUE
      [] v.t = "nan"  -> TRUE
      [] OTHER        -> FALSE

\* hash(v) succeeds
Hashable(v) == v.t # "list"

DigitChars == <<"0", "1", "2", "3", "4", "5", "6", "7", "8", "9">>

\* str.isdigit(): non-empty and every character is a digit
IsDigit(s) ==
    /\ Len(s) > 0
    /\ \A k \in 1..Len(s) : \E d \in 1..10 : s[k] = DigitChars[d]

\* decimal digits of a natural number
RECURSIVE Decimal(_)
Decimal(n) ==
    IF n < 10 THEN <<DigitChars[n + 1]>>
    ELSE Append(Decimal(n \div 10), DigitChars[(n % 10) + 1])

\* str(v)
PyStr(v) ==
    CASE v.t = "str"  -> v.s
      [] v.t = "int"  -> Decimal(v.i)
      [] v.t = "null" -> <<"None">>
      [] v.t = "nan"  -> <<"nan">>
      [] OTHER        -> <<"[", "1", "]">>

-----------------------------------------------------------------------------
(* Exceptions: the class of each exception the program can meet *)

ExcParent ==
    [FileNotFoundError  |-> "OSError",
     PermissionError    |-> "OSError",
     IsADirectoryError  |-> "OSError",
     OSError            |-> "Exception",
     JSONDecodeError    |-> "ValueError",
     UnicodeDecodeError |-> "ValueError",
     EmptyDataError     |-> "Exception",
     ValueError         |-> "Exception",
     TypeError          |-> "Exception",
     KeyError           |-> "Exception",
     AttributeError     |-> "Exception",
     RequestException   |-> "OSError",
     Exception          |-> "BaseException",
     KeyboardInterrupt  |-> "BaseException",
     BaseException      |-> "BaseException"]

\* isinstance(e, cls) for an exception of class e
RECURSIVE IsA(_, _)
IsA(e, cls) ==
    IF e = cls THEN TRUE
    ELSE IF e = "BaseException" THEN FALSE
    ELSE IsA(ExcParent[e], cls)

\* the except clauses `handlers` of a try statement catch e
Caught(e, handlers) == \E k \in 1..Len(handlers) : IsA(e, handlers[k])

\* the exception that leaves a try statement with these except clauses
\* when its body ends with e ("none": normally)
Leaves(e, handlers) == IF e = "none" \/ Caught(e, handlers) THEN "none" ELSE e

-----------------------------------------------------------------------------
(* Config *)

\* Config.REQUIRED_COLUMNS (the seven column headers, by the record key
\* each one feeds)
REQUIRED_COLUMNS ==
    {"colCardPool", "colResourceId", "colQuality", "colType", "colName",
     "colCount", "colTime"}

\* Config.POOLTYPE_MAPPING: <<label, code>> in dictionary order
POOLTYPE_MAPPING ==
    << <<StrV(<<"CharacterEvent">>),      StrV(<<"1">>)>>,
       <<StrV(<<"WeaponEvent">>),         StrV(<<"2">>)>>,
       <<StrV(<<"CharacterStandard">>),   StrV(<<"3">>)>>,
       <<StrV(<<"WeaponStandard">>),      StrV(<<"4">>)>>,
       <<StrV(<<"Beginner">>),            StrV(<<"5">>)>>,
       <<StrV(<<"BeginnerChoice">>),      StrV(<<"6">>)>>,
       <<StrV(<<"BeginnerChoiceThanks">>), StrV(<<"7">>)>>,
       <<StrV(<<"CharacterNewVoyage">>),  StrV(<<"8">>)>>,
       <<StrV(<<"WeaponNewVoyage">>),     StrV(<<"9">>)>> >>

\* Config.RESOURCE_TYPE_MAPPING
Weapon    == StrV(<<"Weapon">>)
Character == StrV(<<"Character">>)
RESOURCE_TYPE_MAPPING ==
    << <<Weapon, StrV(<<"WeaponZh">>)>>, <<Character, StrV(<<"CharacterZh">>)>> >>

INPUT_TIME_FORMATS == <<"%Y-%m-%dT%H:%M:%S%z", "%Y-%m-%dT%H:%M:%S", "%Y-%m-%d %H:%M:%S">>

\* the default uid of _init_export_data
Unknown == StrV(<<"unknown">>)

-----------------------------------------------------------------------------
(* Time format normalisation.                                              *)
(* A timestamp is a sequence of pieces: a valid date, a date with month    *)
(* 13, a valid time of day, a fraction of a second, a UTC offset, and the  *)
(* single characters T, space, Z and x.                                    *)

DateOk   == "2024-01-01"
DateBad  == "2024-13-01"
TimeOk   == "12:00:00"
Frac     == ".5"
Offset   == "+00:00"
TimePieces == {DateOk, DateBad, TimeOk, Frac, Offset, "T", " ", "Z", "x"}

\* the result of a parse: ok, and the date and time of day it read
Parsed(d, h) == [ok |-> TRUE, d |-> d, h |-> h]
NoParse      == [ok |-> FALSE, d |-> "", h |-> ""]

\* s[from..] consists of one or more spaces followed by exactly TimeOk
RECURSIVE SpacesThenTime(_, _)
SpacesThenTime(s, from) ==
    /\ from < Len(s)
    /\ s[from] = " "
    /\ \/ (from + 1 = Len(s) /\ s[from + 1] = TimeOk)
       \/ SpacesThenTime(s, from + 1)

\* datetime.strptime(s, fmt) for the three configured formats
strptime(s, fmt) ==
    CASE fmt = "%Y-%m-%dT%H:%M:%S%z" ->
            IF /\ Len(s) = 4 /\ s[1] = DateOk /\ s[2] = "T" /\ s[3] = TimeOk
               /\ s[4] \in {"Z", Offset}
            THEN Parsed(s[1], s[3]) ELSE NoParse
      [] fmt = "%Y-%m-%dT%H:%M:%S" ->
            IF Len(s) = 3 /\ s[1] = DateOk /\ s[2] = "T" /\ s[3] = TimeOk
            THEN Parsed(s[1], s[3]) ELSE NoParse
      [] fmt = "%Y-%m-%d %H:%M:%S" ->
            IF Len(s) >= 3 /\ s[1] = DateOk /\ SpacesThenTime(s, 2)
            THEN Parsed(s[1], TimeOk) ELSE NoParse

\* pieces that hold one of the characters Z + - (where fromisoformat looks
\* for the UTC offset)
HasSign(p) == p \in {"Z", Offset, DateOk, DateBad}

\* index of the first piece of s at or after `from` that holds a sign, or
\* Len(s) + 1
RECURSIVE FirstSign(_, _)
FirstSign(s, from) ==
    IF from > Len(s) THEN Len(s) + 1
    ELSE IF HasSign(s[from]) THEN from
    ELSE FirstSign(s, from + 1)

\* datetime.fromisoformat(s) (CPython 3.11): a date, one separator
\* character, a time of day, optionally a fraction of a second, optionally
\* a UTC offset which may itself carry a fraction.  One stray character
\* between the time of day and the offset is tolerated.  The piece "+00:00"
\* right after the date reads as separator "+" and time of day 00:00.
fromisoformat(s) ==
    IF Len(s) < 2 \/ s[1] # DateOk THEN NoParse
    ELSE
      LET atTime == /\ Len(s) >= 3 /\ s[2] \in {"T", " ", "Z", "x"}
                    /\ s[3] = TimeOk
          atOff  == s[2] = Offset
          rest   == IF atTime THEN 4 ELSE 3    \* first piece after the time
          h      == IF atTime THEN TimeOk ELSE "00:00:00"
          sign   == FirstSign(s, rest)
          between == sign - rest               \* pieces before the sign
          tzOk   == /\ s[sign] = Offset
                    /\ \/ sign = Len(s)
                       \/ (sign + 1 = Len(s) /\ s[sign + 1] = Frac)
          midOk  == \/ between = 0
                    \/ between = 1 /\ s[rest] = Frac
                    \/ between = 1 /\ s[rest] \in {"T", " ", "x"} /\ sign <= Len(s)
      IN  IF ~(atTime \/ atOff) THEN NoParse
          ELSE IF ~midOk THEN NoParse
          ELSE IF sign > Len(s) THEN Parsed(s[1], h)
          ELSE IF tzOk THEN Parsed(s[1], h)
          ELSE NoParse

\* dt.strftime(Config.OUTPUT_TIME_FORMAT)
strftime(p) == <<p.d, " ", p.h>>

\* the loop over Config.INPUT_TIME_FORMATS: the first format that parses
RECURSIVE FirstFormat(_, _)
FirstFormat(s, k) ==
    IF k > Len(INPUT_TIME_FORMATS) THEN NoParse
    ELSE IF strptime(s, INPUT_TIME_FORMATS[k]).ok
         THEN strptime(s, INPUT_TIME_FORMATS[k])
         ELSE FirstFormat(s, k + 1)

\* time_str[:-1] + "+00:00" when time_str.endswith("Z")
ReplaceZ(s) ==
    IF Len(s) > 0 /\ s[Len(s)] = "Z"
    THEN Append(SubSeq(s, 1, Len(s) - 1), Offset)
    ELSE s

\* JsonConverter._convert_time_format(time_str), time_str any value
_convert_time_format(v) ==
    IF ~Truthy(v) THEN StrV(<<>>)
    ELSE IF v.t # "str" THEN v      \* strptime raises TypeError: outer except
    ELSE
      LET first == FirstFormat(v.s, 1) IN
      IF first.ok THEN StrV(strftime(first))
      ELSE IF \E k \in 1..Len(v.s) : v.s[k] = "T"
           THEN LET s2 == ReplaceZ(v.s) IN
                IF fromisoformat(s2).ok THEN StrV(strftime(fromisoformat(s2)))
                ELSE StrV(s2)
           ELSE v

-----------------------------------------------------------------------------
(* Results of operations that may raise: exc is "none" or the class of the *)
(* exception that left the operation.                                      *)

Ok(v)     == [exc |-> "none", val |-> v]
Raise(e)  == [exc |-> e, val |-> None]

-----------------------------------------------------------------------------
(* ExcelProcessor (src/wuwatool_excel_converter.py)                        *)
(* A workbook file is [ext, st, sheets, doc]; a sheet is                   *)
(* [name, columns, rows]; a row maps each column header to a cell value.   *)

\* value of a string of decimal digits
RECURSIVE ParseDigits(_)
ParseDigits(s) ==
    IF Len(s) = 0 THEN 0
    ELSE 10 * ParseDigits(SubSeq(s, 1, Len(s) - 1))
         + (CHOOSE d \in 0..9 : DigitChars[d + 1] = s[Len(s)])

\* int(v)
PyInt(v) ==
    CASE v.t = "int" -> Ok(v)
      [] v.t = "str" -> IF IsDigit(v.s) THEN Ok(IntV(ParseDigits(v.s)))
                        ELSE Raise("ValueError")
      [] v.t = "nan" -> Raise("ValueError")
      [] OTHER       -> Raise("TypeError")

\* the first exception among the results rs, or "none"
RECURSIVE FirstExc(_)
FirstExc(rs) ==
    IF Len(rs) = 0 THEN "none"
    ELSE IF Head(rs).exc # "none" THEN Head(rs).exc
    ELSE FirstExc(Tail(rs))

\* ExcelProcessor._create_record(row): the dictionary display evaluates its
\* values in order; ValueError and TypeError are re-raised as themselves
_create_record(row) ==
    LET rid   == PyInt(row["colResourceId"])
        star  == PyInt(row["colQuality"])
        count == PyInt(row["colCount"])
        e     == FirstExc(<<rid, star, count>>)
    IN  IF e # "none" THEN Raise(e)
        ELSE [exc |-> "none",
              val |-> [cardPoolType |-> StrV(PyStr(row["colCardPool"])),
                       resourceId   |-> rid.val,
                       qualityLevel |-> star.val,
                       resourceType |-> StrV(PyStr(row["colType"])),
                       name         |-> StrV(PyStr(row["colName"])),
                       count        |-> count.val,
                       time         |-> StrV(PyStr(row["colTime"]))]]

\* no except clause around _create_record
NoRowHandlers == <<>>

\* the except clauses around _create_record in _process_sheet_data
RowHandlers == <<"ValueError", "TypeError", "Exception">>

\* ExcelProcessor._process_sheet_data(df, sheet_name): the loop from row k,
\* on the record list lst; the result is the exception that left the loop
\* (or "none") and the list as the loop left it
RECURSIVE _process_sheet_data(_, _, _)
_process_sheet_data(rows, k, lst) ==
    IF k > Len(rows) THEN [exc |-> "none", list |-> lst]
    ELSE LET r == _create_record(rows[k]) IN
         IF r.exc = "none" THEN _process_sheet_data(rows, k + 1, Append(lst, r.val))
         ELSE IF Caught(r.exc, RowHandlers) THEN _process_sheet_data(rows, k + 1, lst)
         ELSE [exc |-> r.exc, list |-> lst]

\* ExcelProcessor._validate_columns(columns)
_validate_columns(columns) ==
    LET missing_columns == REQUIRED_COLUMNS \ columns IN
    IF missing_columns # {} THEN Raise("ValueError") ELSE Ok(None)

\* the per-sheet try without its catch-all clause
SheetHandlersKeyErrorOnly == <<"KeyError">>

\* the except clauses of the per-sheet try in _process_sheets
SheetHandlers == <<"KeyError", "Exception">>

\* ExcelProcessor._process_sheets(excel_file): the loop from sheet k
RECURSIVE _process_sheets(_, _, _)
_process_sheets(sheets, k, lst) ==
    IF k > Len(sheets) THEN [exc |-> "none", list |-> lst]
    ELSE LET v == _validate_columns(sheets[k].columns)
             d == IF v.exc # "none" THEN [exc |-> v.exc, list |-> lst]
                  ELSE _process_sheet_data(sheets[k].rows, 1, lst)
         IN  IF d.exc = "none" \/ Caught(d.exc, SheetHandlers)
             THEN _process_sheets(sheets, k + 1, d.list)
             ELSE d

\* _process_uid without its `break`: the last sheet name that isdigit()
RECURSIVE _process_uid_no_break(_, _, _)
_process_uid_no_break(sheets, k, uid) ==
    IF k > Len(sheets) THEN [uid |-> uid, found_uid |-> uid # Unknown]
    ELSE IF IsDigit(sheets[k].name)
         THEN _process_uid_no_break(sheets, k + 1, StrV(sheets[k].name))
         ELSE _process_uid_no_break(sheets, k + 1, uid)

\* ExcelProcessor._process_uid(excel_file): the first sheet name, from
\* sheet k on, that isdigit(); uid is the uid so far
RECURSIVE _process_uid(_, _, _)
_process_uid(sheets, k, uid) ==
    IF k > Len(sheets) THEN [uid |-> uid, found_uid |-> FALSE]
    ELSE IF IsDigit(sheets[k].name)
         THEN [uid |-> StrV(sheets[k].name), found_uid |-> TRUE]
         ELSE _process_uid(sheets, k + 1, uid)

\* a converter instance: export_data["info"]["uid"], export_data["list"],
\* the resource mapper, the log of what it did, whether process() has
\* returned and what, and the exception that left process() (or "none")
Converter(kind) ==
    [kind |-> kind, uid |-> Unknown, found_uid |-> FALSE, list |-> <<>>,
     weapon_map |-> EmptyMap, character_map |-> EmptyMap, log |-> <<>>,
     returned |-> FALSE, ret |-> FALSE, exc |-> "none"]

\* the exception with which opening the workbook fails, or "none"
ExcelOpenExc(file) ==
    CASE file.st = "missing"    -> "FileNotFoundError"
      [] file.st = "unreadable" -> "PermissionError"
      [] file.st = "corrupt"    -> "ValueError"
      [] file.st = "isdir"      -> "IsADirectoryError"
      [] OTHER                  -> "none"

\* the except clauses of ExcelProcessor.process
ExcelProcessHandlers ==
    <<"FileNotFoundError", "PermissionError", "EmptyDataError", "ValueError",
      "Exception">>

\* ExcelProcessor(full_path, export_dir).process()
ExcelProcess(file) ==
    LET c0   == Converter("xlsx")
        open == ExcelOpenExc(file)
        u    == _process_uid(file.sheets, 1, c0.uid)
        sh   == _process_sheets(file.sheets, 1, c0.list)
        c1   == IF open # "none" THEN c0
                ELSE [c0 EXCEPT !.uid = u.uid, !.found_uid = u.found_uid,
                                !.list = sh.list]
        e    == IF open # "none" THEN open ELSE sh.exc
    IN  IF e = "none" THEN [c1 EXCEPT !.ret = TRUE, !.returned = TRUE]
        ELSE IF Caught(e, ExcelProcessHandlers)
        THEN [c1 EXCEPT !.ret = FALSE, !.returned = TRUE]
        ELSE [c1 EXCEPT !.exc = e]

-----------------------------------------------------------------------------
(* JsonConverter (src/wuwatracker_json_converter.py)                       *)
(* A JSON file is [ext, st, sheets, doc]; the document is                  *)
(* [t, playerId, pulls], pulls is [t, items] with items what iterating the *)
(* value yields; a pull is [isobj, cardPoolType, ..., time] with Absent    *)
(* for a key the object does not have.  A response of an endpoint is       *)
(* [st, top, weapons, items]: top the type of the JSON body, weapons the   *)
(* type of its "weapons" member (for an object), items the entries of the  *)
(* list the body carries; an entry is [isobj, Id, Name].                   *)

\* d.get(key, default), v the value under key or Absent
Get(v, default) == IF v.t = "absent" THEN default ELSE v

\* {v: k for k, v in table}.get(key, default), table a sequence of <<k, v>>:
\* a later pair with the same v replaces an earlier one
RECURSIVE ReverseGet(_, _, _, _)
ReverseGet(table, n, key, default) ==
    IF n = 0 THEN default
    ELSE IF table[n][2] = key THEN table[n][1]
    ELSE ReverseGet(table, n - 1, key, default)

\* table.get(key, default), table a sequence of <<k, v>> with distinct keys
RECURSIVE TableGet(_, _, _, _)
TableGet(table, n, key, default) ==
    IF n = 0 THEN default
    ELSE IF table[n][1] = key THEN table[n][2]
    ELSE TableGet(table, n - 1, key, default)

\* _convert_card_pool_type looking the code up as it came, not as a string
_convert_card_pool_type_no_str(pool_type) ==
    ReverseGet(POOLTYPE_MAPPING, Len(POOLTYPE_MAPPING), pool_type,
               StrV(PyStr(pool_type)))

\* JsonConverter._convert_card_pool_type(pool_type)
_convert_card_pool_type(pool_type) ==
    LET pool_type_str == StrV(PyStr(pool_type)) IN
    ReverseGet(POOLTYPE_MAPPING, Len(POOLTYPE_MAPPING), pool_type_str,
               StrV(PyStr(pool_type)))

\* JsonConverter._convert_resource_type(resource_type)
_convert_resource_type(resource_type) ==
    IF ~Hashable(resource_type) THEN Raise("TypeError")
    ELSE Ok(TableGet(RESOURCE_TYPE_MAPPING, Len(RESOURCE_TYPE_MAPPING),
                     resource_type, resource_type))

\* _convert_name subscripting the map (map[resource_id]) where the code
\* calls map.get(resource_id)
_convert_name_subscript(resource_id, resource_type, original_name, weapon_map, character_map) ==
    LET map == IF resource_type = Weapon THEN weapon_map ELSE character_map IN
    IF resource_type \notin {Weapon, Character} THEN Ok(original_name)
    ELSE IF ~Hashable(resource_id) THEN Raise("TypeError")
    ELSE IF resource_id \notin DOMAIN map THEN Raise("KeyError")
    ELSE IF Truthy(map[resource_id]) THEN Ok(map[resource_id])
    ELSE Ok(original_name)

\* _convert_name with the two maps taken for one another
_convert_name_swapped(resource_id, resource_type, original_name, weapon_map, character_map) ==
    LET known == resource_type \in {Weapon, Character}
        chinese_name ==
            IF resource_type = Weapon THEN MapGet(character_map, resource_id)
            ELSE IF resource_type = Character THEN MapGet(weapon_map, resource_id)
            ELSE None
    IN  IF known /\ ~Hashable(resource_id) THEN Raise("TypeError")
        ELSE IF Truthy(chinese_name) THEN Ok(chinese_name)
        ELSE Ok(original_name)

\* JsonConverter._convert_name(resource_id, resource_type, original_name)
_convert_name(resource_id, resource_type, original_name, weapon_map, character_map) ==
    LET known == resource_type \in {Weapon, Character}
        chinese_name ==
            IF resource_type = Weapon THEN MapGet(weapon_map, resource_id)
            ELSE IF resource_type = Character THEN MapGet(character_map, resource_id)
            ELSE None
    IN  IF known /\ ~Hashable(resource_id) THEN Raise("TypeError")
        ELSE IF Truthy(chinese_name) THEN Ok(chinese_name)
        ELSE Ok(original_name)

NoRecord ==
    [cardPoolType |-> Absent, resourceId |-> Absent, qualityLevel |-> Absent,
     resourceType |-> Absent, name |-> Absent, count |-> Absent, time |-> Absent]

\* the except clause of _convert_record
ConvertHandlers == <<"Exception">>

\* JsonConverter._convert_record(input_record): val is the record, or
\* NoRecord with some = FALSE when the method returns None
_convert_record(input_record, weapon_map, character_map) ==
    LET card_pool_type == _convert_card_pool_type(Get(input_record.cardPoolType, IntV(0)))
        resource_type  == _convert_resource_type(Get(input_record.resourceType, StrV(<<>>)))
        name == _convert_name(Get(input_record.resourceId, IntV(0)),
                              Get(input_record.resourceType, StrV(<<>>)),
                              Get(input_record.name, StrV(<<>>)),
                              weapon_map, character_map)
        time_str == _convert_time_format(Get(input_record.time, StrV(<<>>)))
        e == IF ~input_record.isobj THEN "AttributeError"
             ELSE FirstExc(<<resource_type, name>>)
    IN  IF e = "none"
        THEN [exc |-> "none", some |-> TRUE,
              val |-> [cardPoolType |-> card_pool_type,
                       resourceId   |-> Get(input_record.resourceId, IntV(0)),
                       qualityLevel |-> Get(input_record.qualityLevel, IntV(3)),
                       resourceType |-> resource_type.val,
                       name         |-> name.val,
                       count        |-> Get(input_record.count, IntV(1)),
                       time         |-> time_str]]
        ELSE IF Caught(e, ConvertHandlers)
        THEN [exc |-> "none", some |-> FALSE, val |-> NoRecord]
        ELSE [exc |-> e, some |-> FALSE, val |-> NoRecord]

\* the loop over an endpoint's entries from entry k: a well-formed entry
\* with truthy Id and Name is stored at once
RECURSIVE LoadEntries(_, _, _)
LoadEntries(items, k, map) ==
    IF k > Len(items) THEN [exc |-> "none", map |-> map]
    ELSE LET w == items[k] IN
         IF ~w.isobj THEN [exc |-> "AttributeError", map |-> map]
         ELSE IF Truthy(w.Id) /\ Truthy(w.Name)
              THEN IF ~Hashable(w.Id) THEN [exc |-> "TypeError", map |-> map]
                   ELSE LoadEntries(items, k + 1, MapSet(map, w.Id, w.Name))
              ELSE LoadEntries(items, k + 1, map)

\* requests.get(url, timeout=...) followed by raise_for_status() and json()
FetchExc(resp) ==
    CASE resp.st = "timeout" -> "RequestException"
      [] resp.st = "http"    -> "RequestException"
      [] resp.st = "notjson" -> "JSONDecodeError"
      [] OTHER               -> "none"

\* a lookup without except clauses of its own
NoLoadHandlers == <<>>

\* the except clauses of _load_weapon_mapping and _load_character_mapping
LoadHandlers == <<"RequestException", "Exception">>

\* a string met where an entry object is expected
NonObjEntry == [isobj |-> FALSE, Id |-> Absent, Name |-> Absent]

\* JsonConverter._load_weapon_mapping(): the body must be an object whose
\* "weapons" member is the list
_load_weapon_mapping(resp, map) ==
    LET r == IF FetchExc(resp) # "none" THEN [exc |-> FetchExc(resp), map |-> map]
             ELSE IF resp.top # "obj" THEN [exc |-> "AttributeError", map |-> map]
             ELSE IF resp.weapons = "absent" THEN [exc |-> "none", map |-> map]
             ELSE IF resp.weapons = "null" THEN [exc |-> "TypeError", map |-> map]
             ELSE LoadEntries(resp.items, 1, map)
    IN  IF r.exc = "none" \/ Caught(r.exc, LoadHandlers)
        THEN [exc |-> "none", map |-> r.map, failed |-> r.exc # "none"]
        ELSE [exc |-> r.exc, map |-> r.map, failed |-> TRUE]

\* JsonConverter._load_character_mapping(): the body is the list itself;
\* iterating an object body yields its keys
_load_character_mapping(resp, map) ==
    LET items == IF resp.top = "list" THEN resp.items
                 ELSE IF resp.weapons = "absent" THEN <<>>
                 ELSE <<NonObjEntry>>
        r == IF FetchExc(resp) # "none" THEN [exc |-> FetchExc(resp), map |-> map]
             ELSE LoadEntries(items, 1, map)
    IN  IF r.exc = "none" \/ Caught(r.exc, LoadHandlers)
        THEN [exc |-> "none", map |-> r.map, failed |-> r.exc # "none"]
        ELSE [exc |-> r.exc, map |-> r.map, failed |-> TRUE]

\* the except clause of _load_resource_mappings
MappingsHandlers == <<"Exception">>

\* the log of a converter: a request sent to an endpoint (and whether it
\* failed), or the conversion of one pull (and whether it was dropped)
Request(url, failed) == [ev |-> "request", url |-> url, failed |-> failed]
Converted(dropped)   == [ev |-> "convert", url |-> "", failed |-> dropped]

\* the except clause of _process_json_data
JsonDataHandlers == <<"Exception">>

\* json_data.get("pulls", [])
NoPulls == [t |-> "list", items |-> <<>>]
PullsOf(json_data) ==
    IF json_data.pulls.t = "absent" THEN NoPulls ELSE json_data.pulls

\* `for pull in pulls` raises TypeError
NotIterable(pulls) == pulls.t \in {"null", "int"}

\* the exception with which reading and decoding the file fails, or "none"
JsonOpenExc(file) ==
    CASE file.st = "missing"    -> "FileNotFoundError"
      [] file.st = "unreadable" -> "PermissionError"
      [] file.st = "isdir"      -> "IsADirectoryError"
      [] file.st = "notutf8"    -> "UnicodeDecodeError"
      [] file.st = "badjson"    -> "JSONDecodeError"
      [] OTHER                  -> "none"

\* JsonConverter.process without its catch-all clause
JsonProcessHandlersNamedOnly ==
    <<"FileNotFoundError", "PermissionError", "JSONDecodeError", "KeyError">>

\* the except clauses of JsonConverter.process
JsonProcessHandlers ==
    <<"FileNotFoundError", "PermissionError", "JSONDecodeError", "KeyError",
      "Exception">>

\* process() ends on converter c with exception e raised in its own try
\* body: it returns False, or e leaves it
EndProcess(c, e, handlers) ==
    IF Caught(e, handlers) THEN [c EXCEPT !.ret = FALSE, !.returned = TRUE]
    ELSE [c EXCEPT !.exc = e]

\* process() ends on converter c with exception e raised in the try body
\* of _process_json_data: that method returns False, which process()
\* returns; an exception it does not catch reaches the clauses of process()
EndJsonData(c, e) ==
    IF Caught(e, JsonDataHandlers) THEN [c EXCEPT !.ret = FALSE, !.returned = TRUE]
    ELSE EndProcess(c, e, JsonProcessHandlers)

\* process() returns True
ReturnTrue(c) == [c EXCEPT !.ret = TRUE, !.returned = TRUE]

-----------------------------------------------------------------------------
(* save_json (both converters) and the batch driver (main.py)              *)

\* f"export_{uid}.json"
ExportName(uid) == <<"export_">> \o PyStr(uid) \o <<".json">>

\* save_json without its catch-all clause
SaveHandlersPermissionOnly == <<"PermissionError">>

\* the except clauses of save_json
SaveHandlers == <<"PermissionError", "Exception">>

\* what os.makedirs / open / json.dump may raise in save_json
WriteOutcomes == {"none", "PermissionError", "OSError"}

\* the file save_json writes: the export data, and the input it came from
Exported(c, src) == [src |-> src, uid |-> c.uid, list |-> c.list]

\* processor.save_json() when writing raises w: the export directory after
\* it, and the exception that leaves save_json
save_json(c, src, dir, w) ==
    IF w = "none"
    THEN [exc |-> "none", dir |-> MapSet(dir, ExportName(c.uid), Exported(c, src))]
    ELSE [exc |-> Leaves(w, SaveHandlers), dir |-> dir]

\* one entry of the history of what process() returned
Result(idx, c) == [idx |-> idx, kind |-> c.kind, ret |-> c.ret]

\* where the driver is once a step of process() has left converter c:
\* inside process() still (at `inside`), after its return, or unwinding
PcAfter(c, inside, after) ==
    IF c.exc # "none" THEN "crashed"
    ELSE IF c.returned THEN after
    ELSE inside

\* the history once a step of process() has left converter c
ResultsAfter(c) ==
    IF c.exc = "none" /\ c.returned THEN Append(results, Result(fidx, c))
    ELSE results

\* batch_process: the data directory is missing; it is created and the
\* function returns
MakeDirs ==
    /\ pc = "start"
    /\ ~dataDirExists
    /\ dataDirExists' = TRUE
    /\ pc' = "done"
    /\ UNCHANGED <<disk, net, fidx, pidx, conv, exportDir, dispatched, results,
                   escaped, tin, tout>>

\* batch_process: os.listdir(data_dir)
ListDir ==
    /\ pc = "start"
    /\ dataDirExists
    /\ fidx' = 1
    /\ pc' = "loop"
    /\ UNCHANGED <<dataDirExists, disk, net, pidx, conv, exportDir, dispatched,
                   results, escaped, tin, tout>>

\* the loop body's first branch: ExcelProcessor(full_path, export_dir).process()
ProcessXlsx ==
    /\ pc = "loop"
    /\ fidx <= Len(disk)
    /\ disk[fidx].ext = "xlsx"
    /\ conv' = ExcelProcess(disk[fidx])
    /\ dispatched' = Append(dispatched, fidx)
    /\ results' = ResultsAfter(conv')
    /\ escaped' = conv'.exc
    /\ pc' = PcAfter(conv', "xlsx", "xlsx")
    /\ UNCHANGED <<dataDirExists, disk, net, fidx, pidx, exportDir, tin, tout>>

\* process() returned True: save_json(), then the next file
Save ==
    /\ pc \in {"xlsx", "json"}
    /\ conv.ret
    /\ \E w \in WriteOutcomes :
         LET r == save_json(conv, fidx, exportDir, w) IN
         /\ exportDir' = r.dir
         /\ escaped' = r.exc
         /\ pc' = IF r.exc = "none" THEN "loop" ELSE "crashed"
    /\ fidx' = fidx + 1
    /\ UNCHANGED <<dataDirExists, disk, net, pidx, conv, dispatched, results, tin, tout>>

\* process() returned False: the file is reported as aborted
Abort ==
    /\ pc \in {"xlsx", "json"}
    /\ ~conv.ret
    /\ fidx' = fidx + 1
    /\ pc' = "loop"
    /\ UNCHANGED <<dataDirExists, disk, net, pidx, conv, exportDir, dispatched,
                   results, escaped, tin, tout>>

\* the loop body's second branch: JsonConverter(full_path, export_dir), and
\* process() up to the call of _load_resource_mappings: the file is read
\* and decoded, and the uid is set
ProcessJson ==
    /\ pc = "loop"
    /\ fidx <= Len(disk)
    /\ disk[fidx].ext = "json"
    /\ LET c0   == Converter("json")
           open == JsonOpenExc(disk[fidx])
           doc  == disk[fidx].doc
       IN  conv' = IF open # "none" THEN EndProcess(c0, open, JsonProcessHandlers)
                   ELSE IF doc.t # "obj" THEN EndJsonData(c0, "AttributeError")
                   ELSE [c0 EXCEPT !.uid = Get(doc.playerId, Unknown)]
    /\ dispatched' = Append(dispatched, fidx)
    /\ results' = ResultsAfter(conv')
    /\ escaped' = conv'.exc
    /\ pc' = PcAfter(conv', "json_weapon", "json")
    /\ UNCHANGED <<dataDirExists, disk, net, fidx, pidx, exportDir, tin, tout>>

\* _load_resource_mappings: self._load_weapon_mapping()
LoadWeapon ==
    /\ pc = "json_weapon"
    /\ LET w  == _load_weapon_mapping(net.weapon, conv.weapon_map)
           c1 == [conv EXCEPT !.weapon_map = w.map,
                              !.log = Append(@, Request("weapon", w.failed))]
       IN  /\ conv' = IF w.exc = "none" \/ Caught(w.exc, MappingsHandlers) THEN c1
                      ELSE EndJsonData(c1, w.exc)
           /\ pc' = IF w.exc = "none" THEN PcAfter(conv', "json_character", "json")
                    ELSE PcAfter(conv', "json_pulls", "json")
    /\ pidx' = 1
    /\ results' = ResultsAfter(conv')
    /\ escaped' = conv'.exc
    /\ UNCHANGED <<dataDirExists, disk, net, fidx, exportDir, dispatched, tin, tout>>

\* _load_resource_mappings: self._load_character_mapping()
LoadCharacter ==
    /\ pc = "json_character"
    /\ LET ch == _load_character_mapping(net.character, conv.character_map)
           c1 == [conv EXCEPT !.character_map = ch.map,
                              !.log = Append(@, Request("character", ch.failed))]
       IN  conv' = IF ch.exc = "none" \/ Caught(ch.exc, MappingsHandlers) THEN c1
                   ELSE EndJsonData(c1, ch.exc)
    /\ pc' = PcAfter(conv', "json_pulls", "json")
    /\ pidx' = 1
    /\ results' = ResultsAfter(conv')
    /\ escaped' = conv'.exc
    /\ UNCHANGED <<dataDirExists, disk, net, fidx, exportDir, dispatched, tin, tout>>

\* one iteration of `for pull in pulls`
ConvertPull ==
    /\ pc = "json_pulls"
    /\ ~NotIterable(PullsOf(disk[fidx].doc))
    /\ pidx <= Len(PullsOf(disk[fidx].doc).items)
    /\ LET record == _convert_record(PullsOf(disk[fidx].doc).items[pidx],
                                     conv.weapon_map, conv.character_map)
       IN  conv' = IF record.exc # "none" THEN EndJsonData(conv, record.exc)
                   ELSE IF record.some
                   THEN [conv EXCEPT !.list = Append(@, record.val),
                                     !.log = Append(@, Converted(FALSE))]
                   ELSE [conv EXCEPT !.log = Append(@, Converted(TRUE))]
    /\ pidx' = pidx + 1
    /\ pc' = PcAfter(conv', "json_pulls", "json")
    /\ results' = ResultsAfter(conv')
    /\ escaped' = conv'.exc
    /\ UNCHANGED <<dataDirExists, disk, net, fidx, exportDir, dispatched, tin, tout>>

\* the loop over pulls ends: pulls cannot be iterated, or is exhausted and
\* _process_json_data returns True
EndPulls ==
    /\ pc = "json_pulls"
    /\ LET pulls == PullsOf(disk[fidx].doc) IN
       /\ NotIterable(pulls) \/ pidx > Len(pulls.items)
       /\ conv' = IF NotIterable(pulls) THEN EndJsonData(conv, "TypeError")
                  ELSE ReturnTrue(conv)
    /\ pc' = PcAfter(conv', "json", "json")
    /\ results' = ResultsAfter(conv')
    /\ escaped' = conv'.exc
    /\ UNCHANGED <<dataDirExists, disk, net, fidx, pidx, exportDir, dispatched, tin, tout>>

\* a file that ends neither in .xlsx nor in .json
SkipFile ==
    /\ pc = "loop"
    /\ fidx <= Len(disk)
    /\ disk[fidx].ext \notin {"xlsx", "json"}
    /\ fidx' = fidx + 1
    /\ UNCHANGED <<pc, dataDirExists, disk, net, pidx, conv, exportDir, dispatched,
                   results, escaped, tin, tout>>

\* the listing is exhausted
Finish ==
    /\ pc = "loop"
    /\ fidx > Len(disk)
    /\ pc' = "done"
    /\ UNCHANGED <<dataDirExists, disk, net, fidx, pidx, conv, exportDir,
                   dispatched, results, escaped, tin, tout>>

-----------------------------------------------------------------------------
(* Inputs *)

\* all strings of at most n pieces
RECURSIVE SeqsUpTo(_, _)
SeqsUpTo(S, n) ==
    IF n = 0 THEN {<<>>}
    ELSE LET shorter == SeqsUpTo(S, n - 1) IN
         shorter \cup {Append(q, x) : q \in shorter, x \in S}

SeqsOfLen(S, n) == {q \in SeqsUpTo(S, n) : Len(q) = n}

NoPullsVal == [t |-> "absent", items |-> <<>>]
NoDoc      == [t |-> "list", playerId |-> Absent, pulls |-> NoPullsVal]
File(ext, st, sheets, doc) == [ext |-> ext, st |-> st, sheets |-> sheets, doc |-> doc]

\* spreadsheet rows: integers in the numeric columns; digit strings in
\* them (coerced); an empty resource id cell (not coercible)
RowA ==
    [colCardPool |-> StrV(<<"poolA">>), colResourceId |-> IntV(1),
     colQuality |-> IntV(5), colType |-> StrV(<<"typeA">>),
     colName |-> StrV(<<"nameA">>), colCount |-> IntV(1),
     colTime |-> StrV(<<DateOk, " ", TimeOk>>)]
RowB ==
    [colCardPool |-> StrV(<<"poolB">>), colResourceId |-> StrV(<<"2", "1">>),
     colQuality |-> StrV(<<"4">>), colType |-> StrV(<<"typeB">>),
     colName |-> IntV(7), colCount |-> IntV(1),
     colTime |-> NaN]
RowNaN ==
    [colCardPool |-> StrV(<<"poolA">>), colResourceId |-> NaN,
     colQuality |-> IntV(5), colType |-> StrV(<<"typeA">>),
     colName |-> StrV(<<"nameA">>), colCount |-> IntV(1),
     colTime |-> StrV(<<DateOk, " ", TimeOk>>)]
RowNone ==
    [colCardPool |-> StrV(<<"poolA">>), colResourceId |-> IntV(3),
     colQuality |-> IntV(5), colType |-> StrV(<<"typeA">>),
     colName |-> StrV(<<"nameA">>), colCount |-> None,
     colTime |-> StrV(<<DateOk, " ", TimeOk>>)]
Rows == {RowA, RowB, RowNaN, RowNone}

\* the headers of a sheet: all required columns, or all but one
ColumnSets == {REQUIRED_COLUMNS, REQUIRED_COLUMNS \ {"colTime"}}

SheetNames == {<<"1", "2">>, <<"7">>, <<"1", "a">>}

\* the contents of n sheets with at most r rows in all
RECURSIVE Books(_, _)
Books(n, r) ==
    IF n = 0 THEN {<<>>}
    ELSE UNION { { <<[columns |-> cs, rows |-> rw]>> \o rest :
                     cs \in ColumnSets, rw \in SeqsOfLen(Rows, k),
                     rest \in Books(n - 1, r - k) } : k \in 0..r }

\* n distinct sheet names
NameLists(n) ==
    {q \in SeqsOfLen(SheetNames, n) : \A i, j \in 1..n : i # j => q[i] # q[j]}

Sheet(name, columns, rows) == [name |-> name, columns |-> columns, rows |-> rows]

\* the workbooks of n sheets with at most r rows in all
Workbooks(n, r) ==
    { [k \in 1..n |-> Sheet(nm[k], b[k].columns, b[k].rows)] :
        nm \in NameLists(n), b \in Books(n, r) }

\* the states a .xlsx file can be in besides holding a workbook
XlsxFailures == {"missing", "unreadable", "corrupt", "isdir"}

\* pulls: the weapon of the end-to-end scenario; a character with an
\* integer pool code and a timestamp no format reads; an item of an unknown
\* type with missing members; a pull that is no object; a pull whose type
\* is a list
Pull(isobj, pool, id, q, name, type, count, time) ==
    [isobj |-> isobj, cardPoolType |-> pool, resourceId |-> id,
     qualityLevel |-> q, name |-> name, resourceType |-> type,
     count |-> count, time |-> time]
PullW1 == Pull(TRUE, StrV(<<"1">>), IntV(1), IntV(5), StrV(<<"TestWeapon">>),
               Weapon, IntV(1), StrV(<<DateOk, "T", TimeOk, "Z">>))
PullC2 == Pull(TRUE, IntV(3), IntV(2), IntV(4), StrV(<<"TestCharacter">>),
               Character, IntV(1), StrV(<<DateBad, "T", TimeOk, "Z">>))
PullItem == Pull(TRUE, IntV(10), IntV(1), Absent, StrV(<<"TestItem">>),
                 StrV(<<"Item">>), Absent, Absent)
PullJunk == Pull(FALSE, Absent, Absent, Absent, Absent, Absent, Absent, Absent)
PullList == Pull(TRUE, StrV(<<"1">>), IntV(1), IntV(5), StrV(<<"TestWeapon">>),
                 AList, IntV(1), Absent)
PullSamples == {PullW1, PullC2, PullItem, PullJunk, PullList}

\* the "pulls" member: a list; absent; null; a number; a string or an
\* object (iterating either yields strings)
PullsVals(n) ==
    {[t |-> "list", items |-> q] : q \in SeqsUpTo(PullSamples, n)}
    \cup {NoPullsVal, [t |-> "null", items |-> <<>>], [t |-> "int", items |-> <<>>],
          [t |-> "str", items |-> <<PullJunk>>], [t |-> "obj", items |-> <<PullJunk>>]}

PlayerIds == {Absent, StrV(<<"1", "2">>), IntV(12), None}

Docs(n) ==
    {[t |-> "obj", playerId |-> p, pulls |-> pl] : p \in PlayerIds, pl \in PullsVals(n)}
    \cup {NoDoc}

\* the states a .json file can be in besides holding a document
JsonFailures == {"missing", "unreadable", "isdir", "notutf8", "badjson"}

JsonFiles(n) ==
    {File("json", "ok", <<>>, d) : d \in Docs(n)}
    \cup {File("json", st, <<>>, NoDoc) : st \in JsonFailures}

\* entries of an endpoint's list
Entry(id, name) == [isobj |-> TRUE, Id |-> id, Name |-> name]
E1 == Entry(IntV(1), StrV(<<"Name1Zh">>))
E2 == Entry(IntV(2), StrV(<<"Name2Zh">>))
E0 == Entry(IntV(0), StrV(<<"Name0Zh">>))
EntryLists == {<<>>, <<E1, E2>>, <<E1, NonObjEntry>>, <<E0, E2>>}

Response(st, top, weapons, items) ==
    [st |-> st, top |-> top, weapons |-> weapons, items |-> items]

\* an endpoint does not answer, answers with an HTTP error status, or with
\* a body that is not JSON
FailedResponses ==
    {Response(st, "list", "absent", <<>>) : st \in {"timeout", "http", "notjson"}}

\* the weapon endpoint: also an object with a "weapons" list, a bare list,
\* an object whose "weapons" member is null or missing
WeaponResponses ==
    FailedResponses
    \cup {Response("ok", "obj", "list", q) : q \in EntryLists}
    \cup {Response("ok", "list", "absent", <<E1>>),
          Response("ok", "obj", "null", <<>>), Response("ok", "obj", "absent", <<>>)}

\* the character endpoint: also a list, an object with a member, an empty
\* object
CharacterResponses ==
    FailedResponses
    \cup {Response("ok", "list", "absent", q) : q \in EntryLists}
    \cup {Response("ok", "obj", "list", <<E1>>), Response("ok", "obj", "absent", <<>>)}

Remotes ==
    {[weapon |-> w, character |-> c] : w \in WeaponResponses, c \in CharacterResponses}

\* both endpoints answer well / neither answers
RemoteUp ==
    [weapon |-> Response("ok", "obj", "list", <<E1, E2>>),
     character |-> Response("ok", "list", "absent", <<E1, E2>>)]
RemoteDown ==
    [weapon |-> Response("timeout", "list", "absent", <<>>),
     character |-> Response("timeout", "list", "absent", <<>>)]

\* the files of the batch runs: workbooks with and without a numeric sheet
\* name, a workbook that is gone, documents with the player id as a string,
\* as a number and missing, documents that are broken in different ways,
\* and a file of another kind
DocOf(p, items) == [t |-> "obj", playerId |-> p, pulls |-> [t |-> "list", items |-> items]]
FileSamples ==
    {File("xlsx", "ok", <<Sheet(<<"1", "2">>, REQUIRED_COLUMNS \cup {"colExtra"}, <<RowA>>)>>, NoDoc),
     File("xlsx", "ok", <<Sheet(<<"1", "a">>, REQUIRED_COLUMNS, <<RowB, RowNaN>>)>>, NoDoc),
     File("xlsx", "missing", <<>>, NoDoc),
     File("xlsx", "corrupt", <<>>, NoDoc),
     File("json", "ok", <<>>, DocOf(StrV(<<"1", "2">>), <<PullW1>>)),
     File("json", "ok", <<>>, DocOf(IntV(12), <<PullC2>>)),
     File("json", "ok", <<>>, DocOf(Absent, <<PullItem, PullJunk>>)),
     File("json", "ok", <<>>, [t |-> "obj", playerId |-> StrV(<<"7">>),
                               pulls |-> [t |-> "str", items |-> <<PullJunk>>]]),
     File("json", "ok", <<>>, [t |-> "obj", playerId |-> StrV(<<"7">>),
                               pulls |-> [t |-> "null", items |-> <<>>]]),
     File("json", "ok", <<>>, NoDoc),
     File("json", "badjson", <<>>, NoDoc),
     File("json", "unreadable", <<>>, NoDoc),
     File("txt", "ok", <<>>, NoDoc)}

-----------------------------------------------------------------------------
(* Specifications *)

InitCommon ==
    /\ pc = "start"
    /\ fidx = 0
    /\ pidx = 0
    /\ conv = Converter("none")
    /\ exportDir = EmptyMap
    /\ dispatched = <<>>
    /\ results = <<>>
    /\ escaped = "none"
    /\ tin = None
    /\ tout = None

\* batch_process on a data directory of at most MaxFiles files, or on none
Init ==
    /\ InitCommon
    /\ dataDirExists \in BOOLEAN
    /\ disk \in (IF dataDirExists THEN SeqsUpTo(FileSamples, MaxFiles) ELSE {<<>>})
    /\ net \in {RemoteUp, RemoteDown}

Next ==
    \/ MakeDirs
    \/ ListDir
    \/ ProcessXlsx
    \/ ProcessJson
    \/ LoadWeapon
    \/ LoadCharacter
    \/ ConvertPull
    \/ EndPulls
    \/ Save
    \/ Abort
    \/ SkipFile
    \/ Finish

Spec == Init /\ [][Next]_vars

\* batch_process on a data directory that holds one workbook
InitExcel ==
    /\ InitCommon
    /\ dataDirExists = TRUE
    /\ net = RemoteDown
    /\ \E n \in 0..MaxSheets :
         IF n = 0 THEN \E st \in XlsxFailures : disk = <<File("xlsx", st, <<>>, NoDoc)>>
         ELSE \E wb \in Workbooks(n, MaxRows) : disk = <<File("xlsx", "ok", wb, NoDoc)>>

NextExcel ==
    \/ ListDir
    \/ ProcessXlsx
    \/ Save
    \/ Abort
    \/ Finish

SpecExcel == InitExcel /\ [][NextExcel]_vars

\* batch_process on a data directory that holds one tracker document
InitJson ==
    /\ InitCommon
    /\ dataDirExists = TRUE
    /\ disk \in {<<f>> : f \in JsonFiles(MaxPulls)}
    /\ net \in Remotes

NextJson ==
    \/ ListDir
    \/ ProcessJson
    \/ LoadWeapon
    \/ LoadCharacter
    \/ ConvertPull
    \/ EndPulls
    \/ Save
    \/ Abort
    \/ Finish

SpecJson == InitJson /\ [][NextJson]_vars

\* batch_process on a data directory that holds one file of either kind
InitFile == InitExcel \/ InitJson

NextFile ==
    \/ ListDir
    \/ ProcessXlsx
    \/ ProcessJson
    \/ LoadWeapon
    \/ LoadCharacter
    \/ ConvertPull
    \/ EndPulls
    \/ Save
    \/ Abort
    \/ Finish

SpecFile == InitFile /\ [][NextFile]_vars

\* _convert_time_format applied to one value
TimeInputs(n) ==
    {StrV(q) : q \in SeqsUpTo(TimePieces, n)} \cup {None, IntV(0), IntV(5), AList}

InitTime ==
    /\ pc = "time"
    /\ dataDirExists = TRUE
    /\ disk = <<>>
    /\ net = RemoteDown
    /\ fidx = 0
    /\ pidx = 0
    /\ conv = Converter("none")
    /\ exportDir = EmptyMap
    /\ dispatched = <<>>
    /\ results = <<>>
    /\ escaped = "none"
    /\ tin \in TimeInputs(MaxTimeLen)
    /\ tout = None

ConvertTime ==
    /\ pc = "time"
    /\ tout' = _convert_time_format(tin)
    /\ pc' = "timed"
    /\ UNCHANGED <<dataDirExists, disk, net, fidx, pidx, conv, exportDir, dispatched,
                   results, escaped, tin>>

NextTime == ConvertTime

SpecTime == InitTime /\ [][NextTime]_vars

\* both endpoints answer with a JSON body
ReachableRemotes == {r \in Remotes : r.weapon.st = "ok" /\ r.character.st = "ok"}

\* the environment between two files: the endpoints stop answering
Outage ==
    /\ pc = "loop"
    /\ 1 < fidx
    /\ fidx <= Len(disk)
    /\ net # RemoteDown
    /\ net' = RemoteDown
    /\ UNCHANGED <<pc, dataDirExists, disk, fidx, pidx, conv, exportDir, dispatched,
                   results, escaped, tin, tout>>

\* batch_process on a data directory that holds the same tracker document
\* twice, the endpoints answering at first and possibly not for the second
InitRerun ==
    /\ InitCommon
    /\ dataDirExists = TRUE
    /\ disk \in {<<f, f>> : f \in JsonFiles(MaxPulls)}
    /\ net \in ReachableRemotes

NextRerun ==
    \/ ListDir
    \/ ProcessJson
    \/ LoadWeapon
    \/ LoadCharacter
    \/ ConvertPull
    \/ EndPulls
    \/ Save
    \/ Abort
    \/ Outage
    \/ Finish

SpecRerun == InitRerun /\ [][NextRerun]_vars

\* _convert_card_pool_type applied to one code: an integer up to n, the
\* same as a string, a code with a leading zero, a label, the empty string
PoolCodes(n) ==
    {IntV(k) : k \in 0..n} \cup {StrV(Decimal(k)) : k \in 0..n}
    \cup {StrV(<<"0", "1">>), POOLTYPE_MAPPING[1][1], StrV(<<>>)}

InitPool ==
    /\ pc = "pool"
    /\ dataDirExists = TRUE
    /\ disk = <<>>
    /\ net = RemoteDown
    /\ fidx = 0
    /\ pidx = 0
    /\ conv = Converter("none")
    /\ exportDir = EmptyMap
    /\ dispatched = <<>>
    /\ results = <<>>
    /\ escaped = "none"
    /\ tin \in PoolCodes(MaxCode)
    /\ tout = None

ConvertPool ==
    /\ pc = "pool"
    /\ tout' = _convert_card_pool_type(tin)
    /\ pc' = "pooled"
    /\ UNCHANGED <<dataDirExists, disk, net, fidx, pidx, conv, exportDir, dispatched,
                   results, escaped, tin>>

NextPool == ConvertPool

SpecPool == InitPool /\ [][NextPool]_vars

-----------------------------------------------------------------------------
(* Properties *)

\* the file the current converter instance was built for
Input == disk[dispatched[Len(dispatched)]]

\* process() has returned on a workbook that could be opened
ProcessedWorkbook ==
    /\ conv.kind = "xlsx"
    /\ conv.returned
    /\ Input.st = "ok"

\* process() has returned on a tracker file
ProcessedJson == conv.kind = "json" /\ conv.returned

\* the positions of the sheets whose name is all digits
NumericSheets(sheets) == {k \in 1..Len(sheets) : IsDigit(sheets[k].name)}

\* C1: after process() on a workbook, info.uid is the first sheet name, in
\* sheet order, that is all digits; with no such sheet, info.uid is
\* "unknown" and process() has returned True
C1_UidIsFirstNumericSheet ==
    ProcessedWorkbook =>
        LET numeric == NumericSheets(Input.sheets) IN
        IF numeric = {}
        THEN conv.uid = Unknown /\ conv.ret = TRUE
        ELSE \E k \in numeric :
               /\ \A j \in numeric : k <= j
               /\ conv.uid = StrV(Input.sheets[k].name)

\* C1 happens: the second sheet of a workbook is its only numeric one and
\* it gave the uid
C1_Witness ==
    /\ ProcessedWorkbook
    /\ Len(Input.sheets) = 2
    /\ NumericSheets(Input.sheets) = {2}
    /\ conv.uid = StrV(Input.sheets[2].name)

\* the records of the rows, from row k on, that _create_record converts
RECURSIVE ConvertibleRows(_, _)
ConvertibleRows(rows, k) ==
    IF k > Len(rows) THEN <<>>
    ELSE (IF _create_record(rows[k]).exc = "none"
          THEN <<_create_record(rows[k]).val>> ELSE <<>>)
         \o ConvertibleRows(rows, k + 1)

\* a sheet that has every required column
ValidSheet(sheet) == REQUIRED_COLUMNS \subseteq sheet.columns

\* the records of the valid sheets, from sheet k on, in sheet-then-row order
RECURSIVE ValidSheetRecords(_, _)
ValidSheetRecords(sheets, k) ==
    IF k > Len(sheets) THEN <<>>
    ELSE (IF ValidSheet(sheets[k]) THEN ConvertibleRows(sheets[k].rows, 1) ELSE <<>>)
         \o ValidSheetRecords(sheets, k + 1)

\* C2: a sheet that lacks a required column contributes no record, the
\* other sheets of the workbook are processed all the same, and process()
\* returns True
C2_InvalidSheetSkipped ==
    (ProcessedWorkbook /\ \E k \in 1..Len(Input.sheets) : ~ValidSheet(Input.sheets[k])) =>
        /\ conv.ret = TRUE
        /\ conv.list = ValidSheetRecords(Input.sheets, 1)

\* C2 happens: the first sheet lacks a column and has a row, the second
\* sheet is valid and its row is in the output
C2_Witness ==
    /\ ProcessedWorkbook
    /\ Len(Input.sheets) = 2
    /\ ~ValidSheet(Input.sheets[1])
    /\ Len(Input.sheets[1].rows) = 1
    /\ ValidSheet(Input.sheets[2])
    /\ Len(conv.list) = 1
    /\ conv.ret = TRUE

\* the records of the pulls, from pull k on, that _convert_record converts
RECURSIVE ConvertiblePulls(_, _, _, _)
ConvertiblePulls(items, k, weapon_map, character_map) ==
    IF k > Len(items) THEN <<>>
    ELSE (IF _convert_record(items[k], weapon_map, character_map).some
          THEN <<_convert_record(items[k], weapon_map, character_map).val>>
          ELSE <<>>)
         \o ConvertiblePulls(items, k + 1, weapon_map, character_map)

\* C3: the output list is the in-order subsequence of the items whose
\* conversion does not raise (rows of valid sheets; pulls), in both
\* converters
C3_ListIsConvertibleSubsequence ==
    /\ ProcessedWorkbook => conv.list = ValidSheetRecords(Input.sheets, 1)
    /\ (ProcessedJson /\ conv.ret) =>
          conv.list = ConvertiblePulls(PullsOf(Input.doc).items, 1,
                                       conv.weapon_map, conv.character_map)

\* C3 happens: the first of two pulls is dropped and the second is in the
\* output
C3_Witness ==
    /\ ProcessedJson
    /\ conv.ret
    /\ Len(PullsOf(Input.doc).items) = 2
    /\ conv.log[Len(conv.log) - 1] = Converted(TRUE)
    /\ conv.log[Len(conv.log)] = Converted(FALSE)
    /\ Len(conv.list) = 1

\* every parsing attempt of _convert_time_format fails on the string s
AllParsingFails(s) ==
    /\ ~FirstFormat(s, 1).ok
    /\ (\E k \in 1..Len(s) : s[k] = "T") => ~fromisoformat(ReplaceZ(s)).ok

\* C4: a timestamp string on which every parsing attempt fails is returned
\* verbatim
C4_UnparsedReturnedVerbatim ==
    (pc = "timed" /\ tin.t = "str" /\ AllParsingFails(tin.s)) => tout = tin

\* the lookups of the current converter that failed
FailedLookups ==
    {conv.log[k].url : k \in {j \in 1..Len(conv.log) :
                                conv.log[j].ev = "request" /\ conv.log[j].failed}}

\* the document is an object whose pulls can be iterated
WellFormedDoc(file) ==
    /\ file.st = "ok"
    /\ file.doc.t = "obj"
    /\ ~NotIterable(PullsOf(file.doc))

\* C5: a lookup that failed leaves the map of its resource kind empty, and
\* process() still returns True
C5_FailedLookupLeavesMapEmpty ==
    /\ "weapon" \in FailedLookups => conv.weapon_map = EmptyMap
    /\ "character" \in FailedLookups => conv.character_map = EmptyMap
    /\ (ProcessedJson /\ FailedLookups # {} /\ WellFormedDoc(Input)) => conv.ret = TRUE

\* a fatal-to-file condition of a tracker file: it is missing, unreadable
\* or not valid JSON, the document is no object, or its pulls member is
\* something else than a list
FatalToFile(file) ==
    \/ file.st # "ok"
    \/ file.doc.t # "obj"
    \/ file.doc.pulls.t \notin {"absent", "list"}

\* C6: on a fatal-to-file condition process() returns False and no output
\* file is written for the input
C6_FatalWritesNoOutput ==
    (conv.kind = "json" /\ FatalToFile(Input)) =>
        /\ conv.returned => conv.ret = FALSE
        /\ \A n \in DOMAIN exportDir : exportDir[n].src # dispatched[Len(dispatched)]

\* C7: an output file, once written, is not overwritten by the output of a
\* later input
C7_NoOutputOverwritten ==
    [][\A n \in DOMAIN exportDir :
          n \in DOMAIN exportDir' /\ exportDir'[n] = exportDir[n]]_vars

\* C8: no exception leaves process() or save_json(), whatever the state of
\* the file, of the endpoints and of the export directory
C8_NoExceptionEscapes ==
    /\ escaped = "none"
    /\ conv.exc = "none"
    /\ pc # "crashed"

\* C8 happens: process() has met an exception and returned False, or
\* save_json() has met one and returned
C8_Witness ==
    /\ pc = "done"
    /\ conv.returned
    /\ \/ conv.kind = "json" /\ Input.st = "notutf8" /\ conv.ret = FALSE
       \/ conv.kind = "xlsx" /\ conv.ret = TRUE /\ exportDir = EmptyMap

\* the positions of the listing that hold an .xlsx or a .json file, in order
RECURSIVE Convertible(_, _)
Convertible(files, k) ==
    IF k > Len(files) THEN <<>>
    ELSE (IF files[k].ext \in {"xlsx", "json"} THEN <<k>> ELSE <<>>)
         \o Convertible(files, k + 1)

\* C9: the loop is never left early: when batch_process ends, every .xlsx
\* and .json file of the listing has been handed to its converter, whatever
\* happened to the files before it
C9_LoopNeverStops ==
    /\ pc # "crashed"
    /\ pc = "done" => dispatched = Convertible(disk, 1)
    /\ Len(dispatched) <= Len(Convertible(disk, 1))
    /\ \A k \in 1..Len(dispatched) : dispatched[k] = Convertible(disk, 1)[k]

\* C9 happens: process() returned False on the first file, or its output
\* could not be written, and the second file was handed to its converter
C9_Witness ==
    /\ pc = "done"
    /\ Len(disk) = 2
    /\ dispatched = <<1, 2>>
    /\ results[1].ret = FALSE
    /\ results[2].ret = TRUE
    /\ exportDir = EmptyMap

\* C10: after a successful process() of a tracker file, info.uid is a
\* string: the playerId of the document, or "unknown" when it has none
C10_UidIsString ==
    (ProcessedJson /\ conv.ret) =>
        /\ conv.uid.t = "str"
        /\ conv.uid = (IF Input.doc.playerId = Absent THEN Unknown
                       ELSE Input.doc.playerId)

\* the member of a pull, or the default _convert_record reads it with
SourceName(pull) == IF pull.name = Absent THEN StrV(<<>>) ELSE pull.name
SourceId(pull)   == IF pull.resourceId = Absent THEN IntV(0) ELSE pull.resourceId

\* the name C11 expects in the record of a pull: the name its id has in
\* the map of its kind, else its own name
ExpectedName(pull, weapon_map, character_map) ==
    IF pull.resourceType = Weapon /\ SourceId(pull) \in DOMAIN weapon_map
    THEN weapon_map[SourceId(pull)]
    ELSE IF pull.resourceType = Character /\ SourceId(pull) \in DOMAIN character_map
    THEN character_map[SourceId(pull)]
    ELSE SourceName(pull)

\* the pull the loop of _process_json_data is at
CurrentPull == PullsOf(Input.doc).items[pidx]

\* C11: the record appended for a pull carries the localized name when the
\* pull is a weapon or a character whose id is a key of the map of its
\* kind, and the pull's own name otherwise
C11_NameResolved ==
    [][(pc = "json_pulls" /\ Len(conv'.list) = Len(conv.list) + 1) =>
          conv'.list[Len(conv'.list)].name =
              ExpectedName(CurrentPull, conv.weapon_map, conv.character_map)]_vars

\* C11 happens: the weapon with id 1 got the name the weapon map has for
\* id 1, and the pull after it, which no map knows, kept its own name
C11_Witness ==
    /\ ProcessedJson
    /\ PullsOf(Input.doc).items = <<PullW1, PullItem>>
    /\ IntV(1) \in DOMAIN conv.weapon_map
    /\ Len(conv.list) = 2
    /\ conv.list[1].name = conv.weapon_map[IntV(1)]
    /\ conv.list[1].name # PullW1.name
    /\ conv.list[2].name = PullItem.name

\* the entries of POOLTYPE_MAPPING whose code is the string form of v
LabelsOf(v) ==
    {k \in 1..Len(POOLTYPE_MAPPING) : POOLTYPE_MAPPING[k][2] = StrV(PyStr(v))}

\* C12: a pool-type code, integer or string, whose string form is a value
\* of POOLTYPE_MAPPING is converted to the key of that value; any other
\* code is converted to its string form
C12_PoolTypeLabel ==
    pc = "pooled" =>
        IF LabelsOf(tin) # {}
        THEN \E k \in LabelsOf(tin) : tout = POOLTYPE_MAPPING[k][1]
        ELSE tout = StrV(PyStr(tin))

\* C12 happens: the integer code 3 was converted to the label of "3"
C12_Witness ==
    /\ pc = "pooled"
    /\ tin = IntV(3)
    /\ POOLTYPE_MAPPING[3][2] = StrV(<<"3">>)
    /\ tout = POOLTYPE_MAPPING[3][1]

\* the positions of the pulls whose record was kept, going by the
\* conversions logged from entry k of the log on; n conversions precede k
RECURSIVE KeptPulls(_, _, _)
KeptPulls(log, k, n) ==
    IF k > Len(log) THEN <<>>
    ELSE IF log[k].ev # "convert" THEN KeptPulls(log, k + 1, n)
    ELSE (IF log[k].failed THEN <<>> ELSE <<n + 1>>) \o KeptPulls(log, k + 1, n + 1)

\* the second run on the same document has returned, with both endpoints
\* unreachable during it, after a first run that returned True
RerunUnreachable ==
    /\ ProcessedJson
    /\ dispatched = <<1, 2>>
    /\ disk[1] = disk[2]
    /\ net = RemoteDown
    /\ results[1].ret = TRUE

\* the output the first run wrote is still in the export directory
FirstOutputKept ==
    /\ ExportName(conv.uid) \in DOMAIN exportDir
    /\ exportDir[ExportName(conv.uid)].src = 1

\* two records agree on every field but the name
SameButName(a, b) ==
    /\ a.cardPoolType = b.cardPoolType
    /\ a.resourceId = b.resourceId
    /\ a.qualityLevel = b.qualityLevel
    /\ a.resourceType = b.resourceType
    /\ a.count = b.count
    /\ a.time = b.time

\* C13: the same document converted with the endpoints answering and then
\* with both unreachable: both runs return True, the lists have the same
\* length and agree record by record on every field but the name, and in
\* the unreachable run every name is the name of the source pull
C13_RerunUnreachable ==
    RerunUnreachable =>
        /\ conv.ret = TRUE
        /\ FirstOutputKept =>
             LET first == exportDir[ExportName(conv.uid)].list IN
             /\ Len(first) = Len(conv.list)
             /\ \A j \in 1..Len(conv.list) : SameButName(first[j], conv.list[j])
        /\ LET kept == KeptPulls(conv.log, 1, 0) IN
           /\ Len(kept) = Len(conv.list)
           /\ \A j \in 1..Len(conv.list) :
                conv.list[j].name = SourceName(PullsOf(Input.doc).items[kept[j]])

\* C13 happens: the first run translated the name of a weapon, and the
\* second run, unreachable, kept the weapon under its own name
C13_Witness ==
    /\ RerunUnreachable
    /\ FirstOutputKept
    /\ Len(conv.list) = 2
    /\ PullsOf(Input.doc).items[1] = PullW1
    /\ conv.list[1].name = PullW1.name
    /\ exportDir[ExportName(conv.uid)].list[1].name # PullW1.name

\* the positions in the log of the requests sent to an endpoint
Requests(url) ==
    {k \in 1..Len(conv.log) : conv.log[k].ev = "request" /\ conv.log[k].url = url}

\* process() has read a document that is an object and is past
\* _load_resource_mappings
PastLookups ==
    /\ conv.kind = "json"
    /\ Input.st = "ok"
    /\ Input.doc.t = "obj"
    /\ pc = "json_pulls" \/ conv.returned

\* C14: in one run of process() each endpoint is requested once and never
\* again, the weapon request is over before the character request is sent,
\* a failed weapon request is followed by the character request all the
\* same, and both are over before the first pull is converted
C14_LookupsOnceInOrder ==
    conv.kind = "json" =>
        /\ Cardinality(Requests("weapon")) <= 1
        /\ Cardinality(Requests("character")) <= 1
        /\ pc = "json_character" => Requests("weapon") = {1} /\ Requests("character") = {}
        /\ Requests("character") # {} => Requests("weapon") = {1} /\ Requests("character") = {2}
        /\ PastLookups => Requests("weapon") = {1} /\ Requests("character") = {2}
        /\ \A k \in 1..Len(conv.log) : conv.log[k].ev = "convert" => k > 2

\* C14 happens: the weapon request failed, the character request was sent
\* after it, and a pull was converted after both
C14_Witness ==
    /\ ProcessedJson
    /\ Len(conv.log) = 3
    /\ conv.log[1] = Request("weapon", TRUE)
    /\ conv.log[2] = Request("character", FALSE)
    /\ conv.log[3].ev = "convert"

====
